---- MODULE Spec2Model ----
(***************************************************************************)
(* A model of jerry_in_a_box/song_database.py: the Song record, the        *)
(* SongDatabase catalog with its JSON storage, the circular progression    *)
(* matcher and the ranked similarity search.                               *)
(*                                                                         *)
(* Strings are sequences of one-character strings, so that str.lower() is  *)
(* computed character by character.  A Python list is a sequence; source   *)
(* indices are 0-based and are shifted by one where a sequence is read.    *)
(* The catalog dict is a sequence of (key, song) entries in insertion      *)
(* order, as a Python dict iterates.                                       *)
(***************************************************************************)
EXTENDS Integers, Sequences, FiniteSets

\* storage: the songs.json file;  songs: self.songs;  pc, err: how far the
\* constructor got;  arg: the call the caller is about to make;  call, ret: the
\* last completed call and what it returned
VARIABLES storage, songs, pc, err, arg, call, ret

vars == <<storage, songs, pc, err, arg, call, ret>>

---------------------------------------------------------------------------
(* Bounds of the model *)

\* longest song progression drawn for the initial storage
MaxProg == 2
\* most records in the initial storage file
MaxSongs == 3
\* longest query passed to find_similar_progressions
MaxQuery == 2
\* longest pattern and progression passed to _find_best_match directly
MaxPattern == 3
\* largest top_n passed to find_similar_progressions
MaxTopN == 3
\* longest text drawn from the tokenizer's alphabet
MaxText == 4
\* most records in the initial storage file of the catalog specification
MaxRecords == 2

---------------------------------------------------------------------------
(* Strings *)

Uppers == <<"A","B","C","D","E","F","G","H","I","J","K","L","M",
            "N","O","P","Q","R","S","T","U","V","W","X","Y","Z">>
Lowers == <<"a","b","c","d","e","f","g","h","i","j","k","l","m",
            "n","o","p","q","r","s","t","u","v","w","x","y","z">>

\* str.lower() on one character
LowerChar(c) ==
    IF \E i \in DOMAIN Uppers : Uppers[i] = c
    THEN Lowers[CHOOSE i \in DOMAIN Uppers : Uppers[i] = c]
    ELSE c

\* str.lower()
Lower(s) == [i \in DOMAIN s |-> LowerChar(s[i])]

\* str.upper() on one character
UpperChar(c) ==
    IF \E i \in DOMAIN Lowers : Lowers[i] = c
    THEN Uppers[CHOOSE i \in DOMAIN Lowers : Lowers[i] = c]
    ELSE c

\* str.upper()
Upper(s) == [i \in DOMAIN s |-> UpperChar(s[i])]

\* min(a, b) and max(a, b) on integers
Min(a, b) == IF b < a THEN b ELSE a
Max(a, b) == IF b > a THEN b ELSE a

\* all sequences over S with length lo..hi
SeqsOf(S, lo, hi) == UNION {[1..n -> S] : n \in lo..hi}

---------------------------------------------------------------------------
(* Song *)

\* the default of Song.source and of add_song's source parameter
DefaultSource ==
    <<"J","e","r","r","y"," ","G","a","r","c","i","a"," ",
      "S","o","n","g"," ","B","o","o","k">>

SongFields == {"title", "artist", "progression", "all_chords", "source", "sections"}
RequiredFields == {"title", "artist", "progression"}

\* Song(**song_data) with the dataclass defaults and __post_init__
Song(d) ==
    [title       |-> d.title,
     artist      |-> d.artist,
     progression |-> d.progression,
     all_chords  |-> IF "all_chords" \in DOMAIN d THEN d.all_chords ELSE <<>>,
     source      |-> IF "source" \in DOMAIN d THEN d.source ELSE DefaultSource,
     sections    |-> IF "sections" \in DOMAIN d THEN d.sections ELSE {}]

\* the exception Song(**d) raises, "none" when it constructs
SongError(d) ==
    IF ~(DOMAIN d \subseteq SongFields) THEN "TypeError"
    ELSE IF ~(RequiredFields \subseteq DOMAIN d) THEN "TypeError"
    ELSE "none"

---------------------------------------------------------------------------
(* The catalog dict: a sequence of [key, song] in insertion order *)

HasKey(d, k) == \E i \in DOMAIN d : d[i].key = k

\* a variant of d[k] = v that always adds an entry
DictSetAppend(d, k, v) == Append(d, [key |-> k, song |-> v])

\* d[k] = v: an existing key keeps its position, a new key goes last
DictSet(d, k, v) ==
    IF HasKey(d, k)
    THEN [i \in DOMAIN d |-> IF d[i].key = k THEN [key |-> k, song |-> v] ELSE d[i]]
    ELSE Append(d, [key |-> k, song |-> v])

\* list(d.values())
Values(d) == [i \in DOMAIN d |-> d[i].song]

---------------------------------------------------------------------------
(* Storage: the file jerry_in_a_box/data/songs.json *)

NoFile == [exists |-> FALSE, valid |-> FALSE, records |-> <<>>]
\* a file whose text json.load rejects
GarbageFile == [exists |-> TRUE, valid |-> FALSE, records |-> <<>>]
JsonFile(rs) == [exists |-> TRUE, valid |-> TRUE, records |-> rs]

\* a variant of _save_songs that writes nothing
_save_songs_skipped(d) == NoFile

\* a variant of lines 69-74 without the source field
SavedRecordWithoutSource(song) ==
    [title       |-> song.title,
     artist      |-> song.artist,
     progression |-> song.progression]

\* _save_songs: one record of four fields per catalog value, in dict order
SavedRecord(song) ==
    [title       |-> song.title,
     artist      |-> song.artist,
     progression |-> song.progression,
     source      |-> song.source]

_save_songs(d) == JsonFile([i \in DOMAIN d |-> SavedRecord(d[i].song)])

---------------------------------------------------------------------------
(* Seed data *)

Ripple == <<"R","i","p","p","l","e">>
FriendOfTheDevil ==
    <<"F","r","i","e","n","d"," ","o","f"," ","t","h","e"," ","D","e","v","i","l">>
ScarletBegonias ==
    <<"S","c","a","r","l","e","t"," ","B","e","g","o","n","i","a","s">>
GratefulDead == <<"G","r","a","t","e","f","u","l"," ","D","e","a","d">>

cG == <<"G">>
cC == <<"C">>
cD == <<"D">>
cF == <<"F">>
cAm == <<"A","m">>

sample_songs ==
    << [title |-> Ripple, artist |-> GratefulDead,
        progression |-> <<cG, cC, cG, cD, cG, cC, cG, cD, cC, cG, cD, cG>>],
       [title |-> FriendOfTheDevil, artist |-> GratefulDead,
        progression |-> <<cAm, cC, cG, cD, cAm, cC, cG, cD, cF, cC, cG, cD>>],
       [title |-> ScarletBegonias, artist |-> GratefulDead,
        progression |-> <<cG, cC, cG, cD, cC, cG, cD, cG>>] >>

RECURSIVE InsertAll(_, _, _)
\* the loop "for song_data in data: self.songs[title.lower()] = Song(**song_data)"
\* from record i on; stops at the first record that raises.  Python evaluates
\* the right-hand side first, so a record without a title fails in Song(**...)
InsertAll(d, data, i) ==
    IF i > Len(data) THEN [songs |-> d, err |-> "none"]
    ELSE IF SongError(data[i]) # "none" THEN [songs |-> d, err |-> SongError(data[i])]
    ELSE InsertAll(DictSet(d, Lower(data[i].title), Song(data[i])), data, i + 1)

\* _initialize_sample_songs: the catalog after the loop; the save follows
_initialize_sample_songs(d) == InsertAll(d, sample_songs, 1).songs

\* _load_songs: the catalog, the storage and the exception that leaves it
_load_songs(d, file) ==
    IF ~file.exists
    THEN LET seeded == _initialize_sample_songs(d)
         IN  [songs |-> seeded, storage |-> _save_songs(seeded), err |-> "none"]
    ELSE IF ~file.valid
    THEN [songs |-> d, storage |-> file, err |-> "JSONDecodeError"]
    ELSE LET r == InsertAll(d, file.records, 1)
         IN  [songs |-> r.songs, storage |-> file, err |-> r.err]

---------------------------------------------------------------------------
(* The matcher *)

\* variants of line 85: no second lap, and a third lap
extended_progression_one_lap(progression) == progression
extended_progression_three_laps(progression) == progression \o progression \o progression

\* line 85: progression * 2
extended_progression(progression) == progression \o progression

RECURSIVE MatchRun(_, _, _, _)
\* lines 91-97: the inner loop from j on, the number of chords it still counts
MatchRun(pattern, extended, i, j) ==
    IF j >= Len(pattern) THEN 0
    ELSE IF i + j >= Len(extended) THEN 0
    ELSE IF Lower(extended[i + j + 1]) = Lower(pattern[(j % Len(pattern)) + 1])
    THEN 1 + MatchRun(pattern, extended, i, j + 1)
    ELSE 0

RECURSIVE BestFromLast(_, _, _, _)
\* a variant of line 99: ">=" in place of ">", the last offset wins
BestFromLast(pattern, progression, i, best) ==
    IF i >= Len(progression) THEN best
    ELSE LET match_length == MatchRun(pattern, extended_progression(progression), i, 0)
         IN  BestFromLast(pattern, progression, i + 1,
                          IF match_length >= best.length
                          THEN [index |-> i, length |-> match_length]
                          ELSE best)

RECURSIVE BestFrom(_, _, _, _)
\* lines 88-101: the outer loop from offset i on, best = the pair found so far
BestFrom(pattern, progression, i, best) ==
    IF i >= Len(progression) THEN best
    ELSE LET match_length == MatchRun(pattern, extended_progression(progression), i, 0)
         IN  BestFrom(pattern, progression, i + 1,
                      IF match_length > best.length
                      THEN [index |-> i, length |-> match_length]
                      ELSE best)

\* _find_best_match: (best_match_index, best_match_length)
_find_best_match(pattern, progression) ==
    BestFrom(pattern, progression, 0, [index |-> -1, length |-> 0])

---------------------------------------------------------------------------
(* Similarity scores: a float quotient of two small integers is kept as the *)
(* exact fraction num/den; comparisons cross-multiply.                      *)

Frac(a, b) == [num |-> a, den |-> b]
One == Frac(1, 1)
FracLess(p, q) == p.num * q.den < q.num * p.den
FracEq(p, q) == p.num * q.den = q.num * p.den
\* Python's min(a, b): b when b < a, otherwise a
FracMin(a, b) == IF FracLess(b, a) THEN b ELSE a

\* a variant of line 126: "//" in place of "/"
SimilarityFloorDiv(best_match_length, current_progression) ==
    FracMin(One, Frac(best_match_length \div Len(current_progression), 1))

\* line 126
Similarity(best_match_length, current_progression) ==
    FracMin(One, Frac(best_match_length, Len(current_progression)))

\* a variant of line 129: the match length is not added
NextChordsFromMatchStart(song_progression, best_match_index, best_match_length) ==
    LET next_chord_index == best_match_index % Len(song_progression)
    IN  [k \in 1..5 |->
            song_progression[((next_chord_index + (k - 1)) % Len(song_progression)) + 1]]

\* lines 129-132
NextChords(song_progression, best_match_index, best_match_length) ==
    LET next_chord_index == (best_match_index + best_match_length) % Len(song_progression)
    IN  [k \in 1..5 |->
            song_progression[((next_chord_index + (k - 1)) % Len(song_progression)) + 1]]

\* a variant of line 124: ">=" in place of ">"
IncludedAlways(best_match_length) == best_match_length >= 0

\* line 124: the song is scored
Included(best_match_length) == best_match_length > 0

RECURSIVE ScanSongs(_, _, _)
\* lines 116-134: the results list built from catalog value i on
ScanSongs(values, current_progression, i) ==
    IF i > Len(values) THEN <<>>
    ELSE LET song == values[i]
             rest == ScanSongs(values, current_progression, i + 1)
         IN  IF song.progression = <<>> THEN rest
             ELSE LET best == _find_best_match(current_progression, song.progression)
                  IN  IF Included(best.length)
                      THEN <<[song |-> song,
                              similarity |-> Similarity(best.length, current_progression),
                              next_chords |-> NextChords(song.progression,
                                                         best.index, best.length)]>>
                           \o rest
                      ELSE rest

\* a variant of the sort that puts e ahead of the entries equal to it
InsertSortedUnstable(sorted, e) ==
    LET ahead == {i \in DOMAIN sorted : FracLess(e.similarity, sorted[i].similarity)}
        n == Cardinality(ahead)
    IN  SubSeq(sorted, 1, n) \o <<e>> \o SubSeq(sorted, n + 1, Len(sorted))

\* where list.sort(key=similarity, reverse=True) puts e in an already sorted
\* list: behind every entry that is not smaller (a stable sort)
InsertSorted(sorted, e) ==
    LET ahead == {i \in DOMAIN sorted : ~FracLess(sorted[i].similarity, e.similarity)}
        n == Cardinality(ahead)
    IN  SubSeq(sorted, 1, n) \o <<e>> \o SubSeq(sorted, n + 1, Len(sorted))

RECURSIVE SortFirst(_, _)
\* line 137: the first n results, sorted
SortFirst(results, n) ==
    IF n = 0 THEN <<>> ELSE InsertSorted(SortFirst(results, n - 1), results[n])

\* a variant of line 137: the sort left out
Unsorted(results) == results

SortBySimilarity(results) == SortFirst(results, Len(results))

\* line 138: results[:top_n]
SliceTo(results, top_n) ==
    LET stop == IF top_n < 0 THEN Max(Len(results) + top_n, 0)
                ELSE Min(top_n, Len(results))
    IN  SubSeq(results, 1, stop)

\* a variant of lines 111-112: an empty query lists the catalog
find_similar_progressions_empty_lists_all(d, current_progression, top_n) ==
    IF current_progression = <<>>
    THEN SliceTo([i \in DOMAIN d |->
                    [song |-> d[i].song, similarity |-> One, next_chords |-> <<>>]], top_n)
    ELSE SliceTo(SortBySimilarity(ScanSongs(Values(d), current_progression, 1)), top_n)

find_similar_progressions(d, current_progression, top_n) ==
    IF current_progression = <<>> THEN <<>>
    ELSE SliceTo(SortBySimilarity(ScanSongs(Values(d), current_progression, 1)), top_n)

---------------------------------------------------------------------------
(* Search *)

\* Python's "sub in s" on strings
Contains(sub, s) ==
    \E i \in 0..(Len(s) - Len(sub)) : SubSeq(s, i + 1, i + Len(sub)) = sub

\* a variant of line 142: the query is not lower-cased
LoweredQueryKept(query) == query

\* line 142
LoweredQuery(query) == Lower(query)

\* lines 142-146
search_songs(d, query) ==
    LET q == LoweredQuery(query)
        Hit(song) == Contains(q, Lower(song.title)) \/ Contains(q, Lower(song.artist))
    IN  SelectSeq(Values(d), Hit)

---------------------------------------------------------------------------
(* The chord tokenizer *)

\* the character classes of the pattern [A-Ga-g][#b]?|[/%|]
RootChars == {"A","B","C","D","E","F","G","a","b","c","d","e","f","g"}
AccidentalChars == {"#", "b"}
MarkChars == {"/", "%", "|"}

RECURSIVE FindAll(_, _)
\* line 156: re.findall from position i on (1-based); the first alternative is
\* tried first and its optional accidental is greedy
FindAll(text, i) ==
    IF i > Len(text) THEN <<>>
    ELSE IF text[i] \in RootChars
    THEN IF i + 1 <= Len(text) /\ text[i + 1] \in AccidentalChars
         THEN <<SubSeq(text, i, i + 1)>> \o FindAll(text, i + 2)
         ELSE <<SubSeq(text, i, i)>> \o FindAll(text, i + 1)
    ELSE IF text[i] \in MarkChars
    THEN <<SubSeq(text, i, i)>> \o FindAll(text, i + 1)
    ELSE FindAll(text, i + 1)

\* a variant of lines 169-170 and 174-175: the marker is skipped
RepeatIgnored(progression) == progression

\* lines 169-170 and 174-175
RepeatLast(progression) ==
    IF progression # <<>>
    THEN Append(progression, progression[Len(progression)])
    ELSE progression

RECURSIVE ParseLoop(_, _, _)
\* lines 161-180: the while loop from token i on (1-based)
ParseLoop(tokens, i, progression) ==
    IF i > Len(tokens) THEN progression
    ELSE LET token == tokens[i]
         IN  IF token = <<"|">> THEN ParseLoop(tokens, i + 1, progression)
             ELSE IF token = <<"%">> THEN ParseLoop(tokens, i + 1, RepeatLast(progression))
             ELSE IF token = <<"/">> THEN ParseLoop(tokens, i + 1, RepeatLast(progression))
             ELSE ParseLoop(tokens, i + 1, Append(progression, Upper(token)))

parse_progression_from_text(text) == ParseLoop(FindAll(text, 1), 1, <<>>)

---------------------------------------------------------------------------
(* Inputs *)

\* chord tokens of the matcher's inputs: two spellings of one chord, and another
Chords == {<<"G">>, <<"g">>, <<"C">>}

Progressions == SeqsOf(Chords, 0, MaxProg)
Queries == SeqsOf(Chords, 1, MaxQuery)
Patterns == SeqsOf(Chords, 1, MaxPattern)
TopNs == (-1)..MaxTopN

\* the i-th title of a generated storage file: "So", "Soo", ...
FileTitle(i) == <<"S">> \o [j \in 1..i |-> "o"]

\* storage files of well-formed records with distinct titles
MatcherFiles ==
    {JsonFile([i \in DOMAIN ps |->
                 [title |-> FileTitle(i), artist |-> GratefulDead, progression |-> ps[i]]])
       : ps \in SeqsOf(Progressions, 0, MaxSongs)}

\* titles, artists and sources of the catalog specification
tA == <<"A">>
ta == <<"a">>
tB == <<"B">>
Anon == <<"X">>
Tab == <<"t","a","b">>

\* records of a storage file: three that load, one without an artist, one
\* without a title, one with a field Song does not have
FileRecords ==
    {[title |-> tA, artist |-> GratefulDead, progression |-> <<cG>>],
     [title |-> ta, artist |-> Anon, progression |-> <<cC, cG>>, source |-> Tab],
     [title |-> tB, artist |-> Anon, progression |-> <<>>],
     [title |-> tB, progression |-> <<cG>>],
     [artist |-> Anon, progression |-> <<cG>>],
     [title |-> tA, artist |-> Anon, progression |-> <<cG>>, year |-> <<"1","9","7","0">>]}

CatalogFiles ==
    {NoFile, GarbageFile} \cup {JsonFile(rs) : rs \in SeqsOf(FileRecords, 0, MaxRecords)}

AddTitles == {tA, ta, tB}
AddArtists == {GratefulDead, Anon}
AddProgressions == {<<cG>>, <<cC, cD>>}
AddSources == {DefaultSource, Tab}

\* characters of the texts to parse: roots in both cases, the flat that is
\* also a root, the sharp, the three marks, a space and a suffix letter
TextChars == {"G", "c", "b", "#", "%", "/", "|", " ", "m"}

\* chord symbols: a root, an optional accidental and a quality suffix
SymbolRoots == {<<"C">>, <<"A">>, <<"E">>}
SymbolAccidentals == {<<>>, <<"#">>, <<"b">>}
NamedSuffixes == {<<"m">>, <<"7">>, <<"m","a","j","7">>}
SymbolSuffixes == NamedSuffixes \cup {<<"m","7">>, <<"s","u","s","4">>, <<"d","i","m">>}
ChordSymbols ==
    {root \o accidental \o suffix :
       root \in SymbolRoots, accidental \in SymbolAccidentals, suffix \in SymbolSuffixes}

\* "G C G D", "G % D" and "% G"
ExampleTexts ==
    {<<"G"," ","C"," ","G"," ","D">>, <<"G"," ","%"," ","D">>, <<"%"," ","G">>}

\* search queries: empty, in either case, across a space, of a seed title, and
\* one that nothing contains
SearchQueries ==
    {<<>>, <<"a">>, <<"A">>, <<"B">>, <<"x">>, <<"l"," ","D">>, <<"R","I","P">>, <<"q">>}

---------------------------------------------------------------------------
(* Operations.  pc is "new" before SongDatabase() runs, "ready" once the    *)
(* object exists and "raised" when the constructor let an exception out.    *)

None == <<>>
NoCall == [op |-> "none"]

\* SongDatabase(): __init__ with its call of _load_songs
Load ==
    /\ pc = "new"
    /\ LET r == _load_songs(songs, storage)
       IN  /\ songs' = r.songs
           /\ storage' = r.storage
           /\ err' = r.err
           /\ pc' = IF r.err = "none" THEN "ready" ELSE "raised"
    /\ call' = [op |-> "load"]
    /\ ret' = None
    /\ UNCHANGED arg

\* SongDatabase() once more, on the storage as it is now: a new object in
\* place of the old one
Reload ==
    /\ pc = "ready"
    /\ LET r == _load_songs(<<>>, storage)
       IN  /\ songs' = r.songs
           /\ storage' = r.storage
           /\ err' = r.err
           /\ pc' = IF r.err = "none" THEN "ready" ELSE "raised"
    /\ call' = [op |-> "reload"]
    /\ ret' = None
    /\ UNCHANGED arg

\* the call _find_best_match(pattern, progression)
FindBestMatch ==
    /\ pc = "ready"
    /\ arg.op = "find_best_match"
    /\ call' = arg
    /\ ret' = _find_best_match(arg.pattern, arg.progression)
    /\ UNCHANGED <<storage, songs, pc, err, arg>>

\* a variant of find_similar_progressions that reorders self.songs
FindSimilarReordersCatalog ==
    /\ pc = "ready"
    /\ arg.op = "find_similar"
    /\ call' = arg
    /\ ret' = find_similar_progressions(songs, arg.current_progression, arg.top_n)
    /\ songs' = [i \in DOMAIN songs |-> songs[Len(songs) + 1 - i]]
    /\ UNCHANGED <<storage, pc, err, arg>>

\* the call find_similar_progressions(current_progression, top_n)
FindSimilar ==
    /\ pc = "ready"
    /\ arg.op = "find_similar"
    /\ call' = arg
    /\ ret' = find_similar_progressions(songs, arg.current_progression, arg.top_n)
    /\ UNCHANGED <<storage, songs, pc, err, arg>>

\* a second call of find_similar_progressions with the arguments of the call
\* that has just returned
FindSimilarAgain ==
    /\ pc = "ready"
    /\ arg.op = "find_similar"
    /\ call = arg
    /\ call' = [arg EXCEPT !.op = "find_similar again"]
    /\ ret' = find_similar_progressions(songs, arg.current_progression, arg.top_n)
    /\ UNCHANGED <<storage, songs, pc, err, arg>>

\* the call search_songs(query)
Search ==
    /\ pc = "ready"
    /\ arg.op = "search"
    /\ call' = arg
    /\ ret' = search_songs(songs, arg.query)
    /\ UNCHANGED <<storage, songs, pc, err, arg>>

\* the call parse_progression_from_text(text)
Parse ==
    /\ pc = "ready"
    /\ arg.op = "parse"
    /\ call' = arg
    /\ ret' = parse_progression_from_text(arg.text)
    /\ UNCHANGED <<storage, songs, pc, err, arg>>

\* line 150: Song(title, artist, progression, source), the arguments bound in
\* the order of the dataclass fields: the fourth field is all_chords
PositionalSong(title, artist, progression, fourth) ==
    [title       |-> title,
     artist      |-> artist,
     progression |-> progression,
     all_chords  |-> fourth,
     source      |-> DefaultSource,
     sections    |-> {}]

\* the call add_song(title, artist, progression, source)
AddSong(title, artist, progression, source) ==
    /\ pc = "ready"
    /\ LET added == DictSet(songs, Lower(title),
                            PositionalSong(title, artist, progression, source))
       IN  /\ songs' = added
           /\ storage' = _save_songs(added)
    /\ call' = [op |-> "add_song", title |-> title, artist |-> artist,
                progression |-> progression, source |-> source]
    /\ ret' = None
    /\ UNCHANGED <<pc, err, arg>>

---------------------------------------------------------------------------
(* Specifications *)

BestMatchCalls(patterns, progressions) ==
    {[op |-> "find_best_match", pattern |-> p, progression |-> g] :
       p \in patterns, g \in progressions}

SimilarCalls(queries) ==
    {[op |-> "find_similar", current_progression |-> q, top_n |-> n] :
       q \in queries, n \in TopNs}

InitObject ==
    /\ songs = <<>>
    /\ pc = "new"
    /\ err = "none"
    /\ call = NoCall
    /\ ret = None

\* two worked cases: a match across the end of the progression, and no match
ExampleCalls ==
    {[op |-> "find_best_match", pattern |-> <<cD, cG>>, progression |-> <<cG, cC, cG, cD>>],
     [op |-> "find_best_match", pattern |-> <<cF>>, progression |-> <<cG, cC>>]}

\* the matcher and the similarity search on the seed catalog
InitMatch ==
    /\ storage = NoFile
    /\ arg \in BestMatchCalls(Patterns, SeqsOf(Chords, 1, MaxPattern))
               \cup ExampleCalls \cup SimilarCalls(Patterns)
    /\ InitObject

NextMatch == Load \/ FindBestMatch \/ FindSimilar

SpecMatch == InitMatch /\ [][NextMatch]_vars

\* the similarity search over catalogs loaded from storage
InitSimilar ==
    /\ storage \in MatcherFiles
    /\ arg \in SimilarCalls(Queries \cup {<<>>})
    /\ InitObject

NextSimilar == Load \/ FindSimilar

SpecSimilar == InitSimilar /\ [][NextSimilar]_vars

\* the catalog: construction from any storage, then additions
Init ==
    /\ storage \in CatalogFiles
    /\ arg = NoCall
    /\ InitObject

Next ==
    \/ Load
    \/ \E title \in AddTitles, artist \in AddArtists,
          progression \in AddProgressions, source \in AddSources :
          AddSong(title, artist, progression, source)
    \/ Reload

Spec == Init /\ [][Next]_vars

\* the queries on a catalog that is built from any storage and added to
QueryCalls ==
    {[op |-> "search", query |-> q] : q \in SearchQueries}
    \cup {[op |-> "find_similar", current_progression |-> <<cG>>, top_n |-> 1],
          [op |-> "find_similar", current_progression |-> <<cC, <<"g">>>>, top_n |-> MaxTopN]}
    \cup ExampleCalls

InitQuery ==
    /\ storage \in CatalogFiles
    /\ arg \in QueryCalls
    /\ InitObject

NextQuery ==
    \/ Load
    \/ \E title \in AddTitles, artist \in AddArtists,
          progression \in AddProgressions, source \in AddSources :
          AddSong(title, artist, progression, source)
    \/ Search
    \/ FindSimilar
    \/ FindSimilarAgain
    \/ FindBestMatch

SpecQuery == InitQuery /\ [][NextQuery]_vars

\* the tokenizer, on a database built from missing storage
InitParse ==
    /\ storage = NoFile
    /\ arg \in {[op |-> "parse", text |-> t] :
                   t \in SeqsOf(TextChars, 0, MaxText) \cup ChordSymbols \cup ExampleTexts}
    /\ InitObject

NextParse == Load \/ Parse

SpecParse == InitParse /\ [][NextParse]_vars

---------------------------------------------------------------------------
(* Properties of the matcher *)

\* chords a and b are equal without regard to case
SameChord(a, b) == Lower(a) = Lower(b)

\* pattern equals the window of progression that starts at offset i and is read
\* cyclically
CyclicMatchAt(pattern, progression, i) ==
    \A j \in 0..(Len(pattern) - 1) :
        SameChord(pattern[j + 1], progression[((i + j) % Len(progression)) + 1])

HasCyclicMatch(pattern, progression) ==
    /\ pattern # <<>>
    /\ Len(pattern) <= Len(progression)
    /\ \E i \in 0..(Len(progression) - 1) : CyclicMatchAt(pattern, progression, i)

\* the entries of a find_similar result that are for the given song
EntriesOf(result, song) == {k \in DOMAIN result : result[k].song = song}

\* C1: a pattern no longer than the progression that equals some cyclic window
\* of it, case-insensitively, is matched in full by _find_best_match, and
\* find_similar scores that song 1.0 (and lists it when top_n covers the catalog)
C1_CircularMatch ==
    /\ (call.op = "find_best_match" /\ HasCyclicMatch(call.pattern, call.progression))
          => ret.length = Len(call.pattern)
    /\ call.op = "find_similar" =>
          \A i \in DOMAIN songs :
              HasCyclicMatch(call.current_progression, songs[i].song.progression) =>
                  /\ \A k \in EntriesOf(ret, songs[i].song) : FracEq(ret[k].similarity, One)
                  /\ call.top_n >= Len(songs) => EntriesOf(ret, songs[i].song) # {}

\* the window D,G of G,C,G,D starts at the last chord and ends at the first
C1_Witness ==
    /\ call.op = "find_best_match"
    /\ call.pattern = <<cD, cG>>
    /\ call.progression = <<cG, cC, cG, cD>>
    /\ ret = [index |-> 3, length |-> 2]

\* C2: the match length lies in 0..len(pattern), and a match never reads past
\* two laps of the progression
C2_MatchLengthBounds ==
    call.op = "find_best_match" =>
        /\ 0 <= ret.length
        /\ ret.length <= Len(call.pattern)
        /\ ret.length > 0 => ret.index + ret.length <= 2 * Len(call.progression)

\* a match that the end of the second lap cut short of the pattern
C2_Witness ==
    /\ call.op = "find_best_match"
    /\ ret.length > 0
    /\ ret.length < Len(call.pattern)
    /\ ret.index + ret.length = 2 * Len(call.progression)

\* no chord of the progression equals the first pattern chord
NoFirstChord(pattern, progression) ==
    \A k \in DOMAIN progression : ~SameChord(progression[k], pattern[1])

\* C3: _find_best_match returns length 0 with index -1 exactly when no chord of
\* the progression equals the first pattern chord; otherwise the index is an
\* offset of the progression whose chord equals the first pattern chord and the
\* length is at least 1
C3_SentinelIffNoFirstChord ==
    call.op = "find_best_match" =>
        IF NoFirstChord(call.pattern, call.progression)
        THEN ret.length = 0 /\ ret.index = -1
        ELSE /\ ret.length >= 1
             /\ 0 <= ret.index
             /\ ret.index < Len(call.progression)
             /\ SameChord(call.progression[ret.index + 1], call.pattern[1])

\* F against G,C: nothing matches
C3_Witness ==
    /\ call.op = "find_best_match"
    /\ call.pattern = <<cF>>
    /\ call.progression = <<cG, cC>>
    /\ ret = [index |-> -1, length |-> 0]

---------------------------------------------------------------------------
(* Properties of the similarity search *)

Query == call.current_progression

\* the best match of the query of the last call in a song's progression
BestOf(song) == _find_best_match(Query, song.progression)

\* the catalog songs the query matches, by catalog position
Matching == {i \in DOMAIN songs :
                songs[i].song.progression # <<>> /\ BestOf(songs[i].song).length > 0}

\* min(1, match_length / len(query)) as a fraction
ClampedRatio(match_length, query_length) ==
    IF match_length >= query_length THEN One ELSE Frac(match_length, query_length)

\* the catalog position of a song
PositionOf(song) == CHOOSE i \in DOMAIN songs : songs[i].song = song

\* the catalog positions listed in the result
Listed == {PositionOf(ret[k].song) : k \in DOMAIN ret}

\* C4: every similarity returned is min(1, match_length / len(query)) of the
\* song's best match, lies in (0, 1], and is 1 exactly when the best match is
\* at least as long as the query
C4_SimilarityIsClampedRatio ==
    call.op = "find_similar" =>
        \A k \in DOMAIN ret :
            LET sim == ret[k].similarity
                match_length == BestOf(ret[k].song).length
            IN  /\ sim.den > 0
                /\ FracEq(sim, ClampedRatio(match_length, Len(Query)))
                /\ FracLess(Frac(0, 1), sim)
                /\ ~FracLess(One, sim)
                /\ FracEq(sim, One) <=> match_length >= Len(Query)

\* a result with a full match and a partial one
C4_Witness ==
    /\ call.op = "find_similar"
    /\ \E k \in DOMAIN ret : FracEq(ret[k].similarity, One)
    /\ \E k \in DOMAIN ret : FracLess(ret[k].similarity, One)

\* C5: next_chords has at most 5 chords, and its k-th chord is the song's chord
\* at (start_index + match_length + k) mod n, in the song's spelling
C5_NextChordsFollowTheMatch ==
    call.op = "find_similar" =>
        \A e \in DOMAIN ret :
            LET P == ret[e].song.progression
                best == BestOf(ret[e].song)
                next_chords == ret[e].next_chords
            IN  /\ Len(next_chords) <= 5
                /\ \A k \in 0..(Len(next_chords) - 1) :
                       next_chords[k + 1] = P[((best.index + best.length + k) % Len(P)) + 1]

\* a match that ends at the last chord of a song, so that the next chords start
\* over, and a next chord spelled in lower case
C5_Witness ==
    /\ call.op = "find_similar"
    /\ \E e \in DOMAIN ret :
          LET P == ret[e].song.progression
              best == BestOf(ret[e].song)
          IN  /\ Len(P) > 1
              /\ best.index + best.length = Len(P)
              /\ ret[e].next_chords[1] = <<"g">>
              /\ P[2] # <<"g">>

\* C6: only songs with a non-empty progression and a positive best match are
\* listed; when top_n covers the catalog, exactly those are, each once
C6_OnlyMatchingSongsListed ==
    (call.op = "find_similar" /\ Query # <<>>) =>
        /\ \A k \in DOMAIN ret :
               /\ \E i \in DOMAIN songs : songs[i].song = ret[k].song
               /\ ret[k].song.progression # <<>>
               /\ BestOf(ret[k].song).length > 0
        /\ call.top_n >= Len(songs) =>
               \A i \in DOMAIN songs :
                   Cardinality(EntriesOf(ret, songs[i].song)) = IF i \in Matching THEN 1 ELSE 0

\* a catalog with a song of no chords, a song the query does not match and a
\* song it matches, searched with top_n covering the catalog
C6_Witness ==
    /\ call.op = "find_similar"
    /\ call.top_n >= Len(songs)
    /\ \E i \in DOMAIN songs : songs[i].song.progression = <<>>
    /\ \E i \in DOMAIN songs :
          songs[i].song.progression # <<>> /\ BestOf(songs[i].song).length = 0
    /\ Len(ret) = 1

\* the similarity of the catalog song at position i
SimilarityAt(i) == ClampedRatio(BestOf(songs[i].song).length, Len(Query))

\* C7: for top_n >= 0 the result has min(top_n, matching songs) entries, in
\* non-increasing similarity, and no matching song left out scores strictly
\* higher than a listed one
C7_SortedAndTruncated ==
    (call.op = "find_similar" /\ call.top_n >= 0) =>
        /\ Len(ret) = Min(call.top_n, Cardinality(Matching))
        /\ \A k \in 1..(Len(ret) - 1) :
               ~FracLess(ret[k].similarity, ret[k + 1].similarity)
        /\ \A i \in Matching \ Listed :
               \A k \in DOMAIN ret : ~FracLess(ret[k].similarity, SimilarityAt(i))

\* a partial match ahead of a full one in the catalog, and a result that lists
\* both scores and leaves a matching song out
C7_Witness ==
    /\ call.op = "find_similar"
    /\ call.top_n >= 0
    /\ Len(ret) = 2
    /\ FracLess(ret[2].similarity, ret[1].similarity)
    /\ PositionOf(ret[2].song) < PositionOf(ret[1].song)
    /\ Matching \ Listed # {}

\* C8: listed songs of equal similarity are in catalog order, and of a group of
\* equal similarity that the truncation cuts, the earliest in the catalog stay
C8_StableRanking ==
    call.op = "find_similar" =>
        /\ \A a, b \in DOMAIN ret :
               (a < b /\ FracEq(ret[a].similarity, ret[b].similarity))
                   => PositionOf(ret[a].song) < PositionOf(ret[b].song)
        /\ \A i \in Matching \ Listed :
               \A k \in DOMAIN ret :
                   FracEq(ret[k].similarity, SimilarityAt(i)) => PositionOf(ret[k].song) < i

\* two listed songs of equal similarity, and a third of that similarity cut
C8_Witness ==
    /\ call.op = "find_similar"
    /\ Len(ret) = 2
    /\ FracEq(ret[1].similarity, ret[2].similarity)
    /\ \E i \in Matching \ Listed : FracEq(SimilarityAt(i), ret[2].similarity)

\* C13: find_similar with an empty query returns the empty list, whatever the
\* catalog and top_n
C13_EmptyQueryEmptyResult ==
    (call.op = "find_similar" /\ call.current_progression = <<>>) => ret = <<>>

\* an empty query on a catalog that has songs with chords, top_n positive
C13_Witness ==
    /\ call.op = "find_similar"
    /\ call.current_progression = <<>>
    /\ call.top_n >= 1
    /\ Len(songs) >= 2
    /\ \E i \in DOMAIN songs : songs[i].song.progression # <<>>
    /\ ret = <<>>

---------------------------------------------------------------------------
(* Properties of loading *)

\* the three built-in songs as Song objects
SeedSong(title, progression) ==
    [title |-> title, artist |-> GratefulDead, progression |-> progression,
     all_chords |-> <<>>, source |-> DefaultSource, sections |-> {}]

SeedSongs ==
    << SeedSong(Ripple, <<cG, cC, cG, cD, cG, cC, cG, cD, cC, cG, cD, cG>>),
       SeedSong(FriendOfTheDevil, <<cAm, cC, cG, cD, cAm, cC, cG, cD, cF, cC, cG, cD>>),
       SeedSong(ScarletBegonias, <<cG, cC, cG, cD, cC, cG, cD, cG>>) >>

SeedKeys ==
    << <<"r","i","p","p","l","e">>,
       <<"f","r","i","e","n","d"," ","o","f"," ","t","h","e"," ","d","e","v","i","l">>,
       <<"s","c","a","r","l","e","t"," ","b","e","g","o","n","i","a","s">> >>

\* the catalog holds exactly the seed songs under their keys, in order
HoldsSeedCatalog(d) ==
    d = [i \in 1..3 |-> [key |-> SeedKeys[i], song |-> SeedSongs[i]]]

\* the storage exists and holds exactly the seed records, in order
HoldsSeedRecords(file) ==
    /\ file.exists
    /\ file.valid
    /\ file.records =
         [i \in 1..3 |-> [title |-> SeedSongs[i].title, artist |-> SeedSongs[i].artist,
                          progression |-> SeedSongs[i].progression,
                          source |-> SeedSongs[i].source]]

\* the file exists but is not JSON, or one of its records lacks a required
\* field or has a field that Song does not have
Malformed(file) ==
    /\ file.exists
    /\ \/ ~file.valid
       \/ \E i \in DOMAIN file.records :
             \/ ~(RequiredFields \subseteq DOMAIN file.records[i])
             \/ ~(DOMAIN file.records[i] \subseteq SongFields)

\* C9: constructing the database on malformed storage raises nothing, leaves
\* the catalog holding exactly the seed songs and persists them
C9_MalformedStorageRecovered ==
    [][(pc = "new" /\ Malformed(storage) /\ pc' # "new") =>
          /\ pc' = "ready"
          /\ err' = "none"
          /\ HoldsSeedCatalog(songs')
          /\ HoldsSeedRecords(storage')]_vars

\* C10: constructing the database on missing storage leaves the catalog holding
\* exactly the three seed songs, in order, and the storage holding their records
C10_MissingStorageSeeded ==
    [][(pc = "new" /\ ~storage.exists /\ pc' # "new") =>
          /\ pc' = "ready"
          /\ err' = "none"
          /\ HoldsSeedCatalog(songs')
          /\ HoldsSeedRecords(storage')]_vars

\* the database just built from the seed data, which it has saved
C10_Witness ==
    /\ pc = "ready"
    /\ call.op = "load"
    /\ HoldsSeedCatalog(songs)
    /\ HoldsSeedRecords(storage)

---------------------------------------------------------------------------
(* Properties of adding *)

\* the catalog position of a key
IndexOfKey(d, k) == CHOOSE i \in DOMAIN d : d[i].key = k

\* C11: add_song under a key the catalog has replaces that entry by the new
\* title, artist, progression and source and leaves the number of entries and
\* every other entry as they were; under a new key the catalog grows by one
C11_AddSongReplacesWholeRecord ==
    [][call'.op = "add_song" =>
          LET k == Lower(call'.title)
          IN  /\ HasKey(songs', k)
              /\ songs'[IndexOfKey(songs', k)].song.title = call'.title
              /\ songs'[IndexOfKey(songs', k)].song.artist = call'.artist
              /\ songs'[IndexOfKey(songs', k)].song.progression = call'.progression
              /\ songs'[IndexOfKey(songs', k)].song.source = call'.source
              /\ IF HasKey(songs, k)
                 THEN /\ Len(songs') = Len(songs)
                      /\ \A i \in DOMAIN songs : songs[i].key # k => songs'[i] = songs[i]
                 ELSE /\ Len(songs') = Len(songs) + 1
                      /\ \A i \in DOMAIN songs : songs'[i] = songs[i]]_vars

\* the record of four fields that storage holds for a song
StoredFields(song) ==
    [title |-> song.title, artist |-> song.artist,
     progression |-> song.progression, source |-> song.source]

\* C12: once add_song has run, storage holds one record of title, artist,
\* progression and source per catalog song, in catalog order, and nothing else
C12_StorageFollowsEveryAdd ==
    call.op = "add_song" =>
        /\ storage.exists
        /\ storage.valid
        /\ Len(storage.records) = Len(songs)
        /\ \A i \in DOMAIN songs : storage.records[i] = StoredFields(songs[i].song)

\* an add that replaced the first of two entries, after which storage still
\* lists both in catalog order
C12_Witness ==
    /\ call.op = "add_song"
    /\ Len(songs) = 2
    /\ songs[1].key = Lower(call.title)
    /\ songs[1].song.title # songs[2].song.title
    /\ storage.records[1].title = call.title
    /\ storage.records[2].title = songs[2].song.title

---------------------------------------------------------------------------
(* Properties of search *)

\* sub occurs in s at some offset, compared character by character without
\* regard to case
OccursIgnoringCase(sub, s) ==
    \E off \in 0..(Len(s) - Len(sub)) :
        \A j \in 1..Len(sub) : LowerChar(s[off + j]) = LowerChar(sub[j])

\* the catalog positions whose title or artist contains the query
SearchHits(query) ==
    {i \in DOMAIN songs :
        \/ OccursIgnoringCase(query, songs[i].song.title)
        \/ OccursIgnoringCase(query, songs[i].song.artist)}

\* the k-th smallest member of a set of positions
KthOf(positions, k) ==
    CHOOSE i \in positions : Cardinality({j \in positions : j <= i}) = k

\* C14: search returns exactly the songs whose title or artist contains the
\* query as a case-insensitive substring, each once, in catalog order
C14_SearchIsOrderedFilter ==
    call.op = "search" =>
        /\ Len(ret) = Cardinality(SearchHits(call.query))
        /\ \A k \in DOMAIN ret : ret[k] = songs[KthOf(SearchHits(call.query), k)].song

\* an upper-case query that finds two songs by their lower-cased text and
\* passes over one that lies between them in the catalog
C14_Witness ==
    /\ call.op = "search"
    /\ call.query # Lower(call.query)
    /\ Len(ret) = 2
    /\ \E i, j, k \in DOMAIN songs :
          /\ i < j
          /\ j < k
          /\ ret[1] = songs[i].song
          /\ ret[2] = songs[k].song
          /\ j \notin SearchHits(call.query)

---------------------------------------------------------------------------
(* Properties of the tokenizer *)

\* C15: a chord symbol made of a root, an optional accidental and one of the
\* quality suffixes m, 7 and maj7 parses to one token, the root with its
\* accidental
C15_SuffixContributesNoToken ==
    call.op = "parse" =>
        \A root \in SymbolRoots, accidental \in SymbolAccidentals,
           suffix \in NamedSuffixes :
            call.text = root \o accidental \o suffix => ret = <<Upper(root \o accidental)>>

\* position i of the text starts a chord-root token: a root character that the
\* token before it has not taken as its accidental
RECURSIVE StartsRoot(_, _)
StartsRoot(text, i) ==
    /\ text[i] \in RootChars
    /\ ~(i > 1 /\ text[i] \in AccidentalChars /\ StartsRoot(text, i - 1))

\* the chord-root token that starts at position i
RootTokenAt(text, i) ==
    IF i < Len(text) /\ text[i + 1] \in AccidentalChars
    THEN SubSeq(text, i, i + 1)
    ELSE SubSeq(text, i, i)

RECURSIVE Scanned(_, _)
\* the output of the left-to-right scan after the first n characters
Scanned(text, n) ==
    IF n = 0 THEN <<>>
    ELSE LET out == Scanned(text, n - 1)
         IN  IF StartsRoot(text, n) THEN Append(out, Upper(RootTokenAt(text, n)))
             ELSE IF text[n] \in {"%", "/"} /\ out # <<>> THEN Append(out, out[Len(out)])
             ELSE out

RootStarts(text) == {i \in DOMAIN text : StartsRoot(text, i)}

\* the repeat markers behind the first chord-root token
RepeatsAfterFirstRoot(text) ==
    {i \in DOMAIN text : text[i] \in {"%", "/"} /\ \E r \in RootStarts(text) : r < i}

\* C16: parse equals the left-to-right scan that appends each chord-root token
\* in upper case, nothing for a bar, a copy of the last token for a repeat
\* marker when there is one, and ignores every other character; its length is
\* the number of root tokens plus the repeat markers behind the first of them
C16_ParseIsLeftToRightScan ==
    call.op = "parse" =>
        /\ ret = Scanned(call.text, Len(call.text))
        /\ Len(ret) = Cardinality(RootStarts(call.text))
                        + Cardinality(RepeatsAfterFirstRoot(call.text))
        /\ call.text = <<"G"," ","C"," ","G"," ","D">> => ret = <<cG, cC, cG, cD>>
        /\ call.text = <<"G"," ","%"," ","D">> => ret = <<cG, cG, cD>>
        /\ call.text = <<"%"," ","G">> => ret = <<cG>>

\* a text with a marker ahead of the first chord, a flat and a marker that
\* repeats
C16_Witness ==
    /\ call.op = "parse"
    /\ call.text = <<"%", "G", "b", "/">>
    /\ ret = << <<"G","B">>, <<"G","B">> >>

---------------------------------------------------------------------------
(* Frame of the queries *)

QueryOps == {"find_best_match", "find_similar", "find_similar again", "search"}

---------------------------------------------------------------------------
(* The best match as a maximum *)

\* the greedy run at offset i with the progression read cyclically: the most
\* leading pattern chords, at most limit of them, that equal the chords from
\* offset i on
RunWithin(pattern, progression, i, limit) ==
    LET full(k) == \A j \in 0..(k - 1) :
                      SameChord(pattern[j + 1],
                                progression[((i + j) % Len(progression)) + 1])
    IN  CHOOSE k \in 0..limit : full(k) /\ \A m \in (k + 1)..limit : ~full(m)

\* the run that ends at the first mismatch or at the end of the pattern
CyclicRun(pattern, progression, i) ==
    RunWithin(pattern, progression, i, Len(pattern))

\* the run that also ends where i + j reaches two laps of the progression
TwoLapRun(pattern, progression, i) ==
    RunWithin(pattern, progression, i, Min(Len(pattern), 2 * Len(progression) - i))

Offsets(progression) == 0..(Len(progression) - 1)

\* C18 as stated: the returned length is the maximum over all offsets of the
\* cyclic greedy run, and the returned index is the lowest offset with that run
C18_BestIsMaxCyclicRun ==
    call.op = "find_best_match" =>
        LET P == call.pattern
            G == call.progression
        IN  /\ \A i \in Offsets(G) : CyclicRun(P, G, i) <= ret.length
            /\ ret.length > 0 =>
                   /\ ret.index \in Offsets(G)
                   /\ CyclicRun(P, G, ret.index) = ret.length
                   /\ \A i \in Offsets(G) : CyclicRun(P, G, i) = ret.length => ret.index <= i

\* C18 amended: the same with the run at offset i also ending where i + j
\* reaches twice the length of the progression
C18_BestIsMaxTwoLapRun ==
    call.op = "find_best_match" =>
        LET P == call.pattern
            G == call.progression
        IN  /\ \A i \in Offsets(G) : TwoLapRun(P, G, i) <= ret.length
            /\ ret.length > 0 =>
                   /\ ret.index \in Offsets(G)
                   /\ TwoLapRun(P, G, ret.index) = ret.length
                   /\ \A i \in Offsets(G) : TwoLapRun(P, G, i) = ret.length => ret.index <= i

\* a later offset has a run as long as the best, and the earlier one is returned;
\* an offset between them has a shorter run
C18_Witness ==
    /\ call.op = "find_best_match"
    /\ ret.length > 0
    /\ \E i, m \in Offsets(call.progression) :
          /\ ret.index < m
          /\ m < i
          /\ TwoLapRun(call.pattern, call.progression, i) = ret.length
          /\ TwoLapRun(call.pattern, call.progression, m) < ret.length

---------------------------------------------------------------------------
(* Properties of the catalog keys and of reloading *)

\* C19: once the database is built, every key is the lower-cased title of its
\* song, and no two songs have titles that are equal without regard to case
C19_KeyIsLoweredTitle ==
    pc = "ready" =>
        /\ \A i \in DOMAIN songs : songs[i].key = Lower(songs[i].song.title)
        /\ \A i, j \in DOMAIN songs :
               Lower(songs[i].song.title) = Lower(songs[j].song.title) => i = j

\* the title "A" has been added over the song that was stored with title "a",
\* behind another song
C19_Witness ==
    /\ pc = "ready"
    /\ call.op = "add_song"
    /\ call.title = tA
    /\ Len(songs) = 2
    /\ songs[2].key = ta
    /\ songs[2].song.title = tA
    /\ \E i \in DOMAIN storage.records : storage.records[i].title = tA

\* the titles that find_similar ranks for a query, in rank order
RankedTitles(d, query) ==
    LET result == find_similar_progressions(d, query, MaxTopN)
    IN  [k \in DOMAIN result |-> result[k].song.title]

\* C20: a reload of the saved storage yields the same keys in the same order
\* with the same title, artist, progression and source, and so the same
\* ranking; an add under a key the catalog has keeps the key's position, and
\* an add under a new key puts it last
C20_ReloadPreservesCatalog ==
    [][/\ call'.op = "reload" =>
             /\ pc' = "ready"
             /\ Len(songs') = Len(songs)
             /\ \A i \in DOMAIN songs :
                    /\ songs'[i].key = songs[i].key
                    /\ StoredFields(songs'[i].song) = StoredFields(songs[i].song)
             /\ \A query \in {<<cG>>, <<cC>>, <<cC, cG>>} :
                    RankedTitles(songs', query) = RankedTitles(songs, query)
       /\ call'.op = "add_song" =>
             LET k == Lower(call'.title)
             IN  /\ \A i \in DOMAIN songs : songs'[i].key = songs[i].key
                 /\ ~HasKey(songs, k) => songs'[Len(songs')].key = k]_vars

\* a database reloaded from what an add saved: the added song is behind the
\* song it was added behind, and its source from the call is not in the object
C20_Witness ==
    /\ pc = "ready"
    /\ call.op = "reload"
    /\ Len(songs) = 2
    /\ songs[1].key = Lower(tB)
    /\ songs[2].key = ta
    /\ songs[2].song.progression = <<cC, cD>>
    /\ songs[2].song.all_chords = <<>>
    /\ storage.records[2].title = songs[2].song.title

====
